---- MODULE Spec2Model ----
(***************************************************************************)
(* create2gpu: the all-GPUs orchestrator (main.rs, run_on_all_gpus), the   *)
(* Device Session loop (gpu.rs, gpu), the Result Sink file (gpu.rs,        *)
(* read_current_best_score and the CSV append) and the keccak kernel's     *)
(* result protocol (kernels/keccak256.cl, which is not part of the source  *)
(* tree at hand and is modelled from spec.md, section 4.1).                *)
(*                                                                         *)
(* Representation.  A byte string is a sequence over 0..255.  A text is a  *)
(* sequence of one-character strings.  A u64 is the sequence of its eight  *)
(* bytes, most significant first (TLC's integers are 32 bits wide).  A     *)
(* line of the result file is the sequence of its comma-separated fields,  *)
(* each field a text.                                                      *)
(*                                                                         *)
(* Specifications.  Spec and FairSpec: an all-GPUs run from the point      *)
(* where the worker threads are spawned.  MainSpec: a run from main, in    *)
(* either mode, on each host of Hosts.  SinkFailSpec: Spec with an output  *)
(* path whose open and writes can fail.  HitSpec: the reads and the hit    *)
(* branch of one iteration, over a range of reported salt tails.           *)
(* ReadSpec: the first read of the output file, over a range of files.     *)
(* ParseSpec: main's parse of its arguments, over a range of texts.        *)
(*                                                                         *)
(* History.  passing and appended are not state of the program: they keep, *)
(* for each session, how many of its dispatches had a passing work item    *)
(* and the salts of the records it appended.                               *)
(***************************************************************************)
EXTENDS Integers, Sequences, FiniteSets, TLC

\* ------------------------------------------------------------------ bounds

\* Kernel dispatches issued in one run, over all sessions.
MaxDispatch == 2

\* Work items of one dispatch (the source's WORK_SIZE is 0x4000000).
NumWorkItems == 2

\* ------------------------------------------------------------ byte helpers

Byte == 0..255

Zeros(n) == [i \in 1..n |-> 0]

Reverse(s) == [i \in 1..Len(s) |-> s[Len(s) + 1 - i]]

\* Rust's s[a..b]: zero-based, b exclusive.
Slice(s, a, b) == [i \in 1..(b - a) |-> s[a + i]]

HexDigits == <<"0", "1", "2", "3", "4", "5", "6", "7",
               "8", "9", "a", "b", "c", "d", "e", "f">>

UpperOf == [c \in {"a", "b", "c", "d", "e", "f"} |->
              CASE c = "a" -> "A" [] c = "b" -> "B" [] c = "c" -> "C"
                [] c = "d" -> "D" [] c = "e" -> "E" [] c = "f" -> "F"]

LowerOf == [c \in {"A", "B", "C", "D", "E", "F"} |->
              CASE c = "A" -> "a" [] c = "B" -> "b" [] c = "C" -> "c"
                [] c = "D" -> "d" [] c = "E" -> "e" [] c = "F" -> "f"]

IsDecimalDigit(c) == c \in {"0", "1", "2", "3", "4", "5", "6", "7", "8", "9"}

\* char::to_ascii_uppercase / str::to_lowercase on the characters that occur.
to_ascii_uppercase(c) == IF c \in DOMAIN UpperOf THEN UpperOf[c] ELSE c

\* to_lowercase leaving every character as it is.
KeepCase(s) == s

to_lowercase(s) == [i \in 1..Len(s) |->
                      IF s[i] \in DOMAIN LowerOf THEN LowerOf[s[i]] ELSE s[i]]

\* The value of a hex digit, either case; -1 for any other character.
HexValue(c) ==
  LET l == IF c \in DOMAIN LowerOf THEN LowerOf[c] ELSE c
      m == {v \in 0..15 : HexDigits[v + 1] = l}
  IN  IF m = {} THEN -1 ELSE CHOOSE v \in m : TRUE

\* The ASCII code of a character of a hex text: as_bytes.
Ascii(c) ==
  IF IsDecimalDigit(c) THEN 48 + HexValue(c)
  ELSE IF c = "x" THEN 120
  ELSE IF c \in DOMAIN LowerOf THEN 65 + (HexValue(c) - 10)
  ELSE 97 + (HexValue(c) - 10)

\* hex::encode: two lowercase digits per byte, high nibble first.
hex_encode(bytes) ==
  [i \in 1..(2 * Len(bytes)) |->
     LET b == bytes[(i + 1) \div 2]
     IN  IF i % 2 = 1 THEN HexDigits[(b \div 16) + 1] ELSE HexDigits[(b % 16) + 1]]

\* hex::decode of an even-length text of hex digits.
hex_decode(text) ==
  [i \in 1..(Len(text) \div 2) |->
     16 * HexValue(text[2 * i - 1]) + HexValue(text[2 * i])]

\* format!("{}", n) for an unsigned integer.
RECURSIVE ToDecimal(_)
ToDecimal(n) ==
  IF n < 10 THEN <<HexDigits[n + 1]>>
  ELSE Append(ToDecimal(n \div 10), HexDigits[(n % 10) + 1])

\* str::parse::<usize>: the value of a non-empty text of decimal digits
\* (one leading '+' is accepted), -1 standing for Err.
RECURSIVE DigitsValue(_, _)
DigitsValue(text, acc) ==
  IF text = <<>> THEN acc
  ELSE DigitsValue(Tail(text), 10 * acc + HexValue(Head(text)))

parse_usize(text) ==
  LET body == IF text # <<>> /\ Head(text) = "+" THEN Tail(text) ELSE text
  IN  IF body = <<>> \/ \E i \in 1..Len(body) : ~IsDecimalDigit(body[i])
      THEN -1
      ELSE DigitsValue(body, 0)

\* ------------------------------------------------------------------ keccak

\* tiny_keccak's Keccak::new_keccak256 / update / finalize, as a stand-in
\* with the same interface: a total, deterministic map from a byte string to
\* a 32-byte digest.  The stand-in is built so that digests whose low 20
\* bytes start and end with runs of the hex digit 1 are common enough to
\* occur among a handful of salts; nothing below depends on how it mixes.
RECURSIVE Absorb(_, _, _)
Absorb(bytes, lo, hi) ==
  IF lo > hi THEN 0
  ELSE IF lo = hi THEN (bytes[lo] + 1) * (((lo * lo + 7 * lo) % 251) + 1)
  ELSE LET mid == (lo + hi) \div 2
       IN  (Absorb(bytes, lo, mid) + Absorb(bytes, mid + 1, hi)) % 65521

DigestNibble(a, j) ==
  LET k     == j - 24
      lead  == 2 + (a % 6)
      trail == 2 + ((a \div 6) % 6)
      x     == (a + 3 * j) % 15
  IN  IF j < 24 THEN (a + 3 * j) % 16
      ELSE IF k < lead \/ k >= 40 - trail THEN 1
      ELSE IF x = 1 THEN 15 ELSE x

Keccak256(bytes) ==
  LET a == (Absorb(bytes, 1, Len(bytes)) + Len(bytes)) % 65521
  IN  [i \in 1..32 |-> 16 * DigestNibble(a, 2 * (i - 1)) + DigestNibble(a, 2 * (i - 1) + 1)]

\* ------------------------------------------------------------ configuration

\* Config.factory_address and Config.init_code_hash of the run.
factory == [i \in 1..20 |-> (37 * i) % 256]

init_hash == [i \in 1..32 |-> (11 * i + 5) % 256]

min_leading_ones == 4

min_trailing_ones == 4

\* The hit threshold of the session loop: a score of 11 or more is recorded
\* whatever the best score is.
AlwaysRecordScore == 11

\* ------------------------------------------------- main.rs: the arguments

\* The result of a parse: Ok(bytes), or Err with no bytes.
Ok(bytes) == [ok |-> TRUE, bytes |-> bytes]

Err == [ok |-> FALSE, bytes |-> <<>>]

\* ParseFixed copying the decoded bytes to the front of the result.
ParseFixedPadRight(text, width) ==
  LET stripped == IF Len(text) >= 2 /\ text[1] = "0" /\ text[2] = "x"
                  THEN Slice(text, 2, Len(text)) ELSE text
      padded   == IF Len(stripped) % 2 # 0 THEN <<"0">> \o stripped ELSE stripped
  IN  IF \E i \in 1..Len(padded) : HexValue(padded[i]) = -1
      THEN Err
      ELSE LET bytes    == hex_decode(padded)
               copy_len == IF Len(bytes) < width THEN Len(bytes) ELSE width
           IN  Ok([i \in 1..width |-> IF i <= copy_len THEN bytes[i] ELSE 0])

\* The body parse_address and parse_hash share, for a result of width
\* bytes: strip 0x, put a 0 before an odd number of digits, hex::decode
\* (an error on any other character), and when the length is not width
\* copy the first min(len, width) bytes to the end of a zeroed result.
ParseFixed(text, width) ==
  LET stripped == IF Len(text) >= 2 /\ text[1] = "0" /\ text[2] = "x"
                  THEN Slice(text, 2, Len(text)) ELSE text
      padded   == IF Len(stripped) % 2 # 0 THEN <<"0">> \o stripped ELSE stripped
  IN  IF \E i \in 1..Len(padded) : HexValue(padded[i]) = -1
      THEN Err
      ELSE LET bytes    == hex_decode(padded)
               copy_len == IF Len(bytes) < width THEN Len(bytes) ELSE width
           IN  IF Len(bytes) # width
               THEN Ok([i \in 1..width |->
                          IF i > width - copy_len
                          THEN bytes[i - (width - copy_len)] ELSE 0])
               ELSE Ok(bytes)

parse_address(address_str) == ParseFixed(address_str, 20)

parse_hash(hash_str) == ParseFixed(hash_str, 32)

\* main: parse_address(&args.deployer)?, parse_address(&args.caller)?,
\* parse_hash(&args.init_code_hash)?: the results up to the first error.
ParseAll(a) ==
  LET factory_address == parse_address(a.deployer)
      calling_address == parse_address(a.caller)
      init_code_hash  == parse_hash(a.init_code_hash)
  IN  IF ~factory_address.ok THEN <<factory_address>>
      ELSE IF ~calling_address.ok THEN <<factory_address, calling_address>>
      ELSE <<factory_address, calling_address, init_code_hash>>

\* The command line that gives factory and init_hash.
DefaultArgs ==
  [deployer       |-> <<"0", "x">> \o hex_encode(factory),
   caller         |-> <<"0", "x">> \o hex_encode(Zeros(20)),
   init_code_hash |-> <<"0", "x">> \o hex_encode(init_hash)]

\* ------------------------------------------------------------------ lib.rs

\* u64_to_le_fixed_8: b1 = (x >> 56) & 0xff is x[1], ..., b8 = x & 0xff is
\* x[8]; the result is [b8, b7, b6, b5, b4, b3, b2, b1].
u64_to_le_fixed_8(x) ==
  <<x[8], x[7], x[6], x[5], x[4], x[3], x[2], x[1]>>

\* ------------------------------------------------- gpu.rs: the hit's record

\* FullSalt with the solution bytes copied to its start.
FullSaltLeftAligned(solution_bytes) ==
  LET solution_len == IF Len(solution_bytes) < 8 THEN Len(solution_bytes) ELSE 8
  IN  [i \in 1..32 |-> IF i <= solution_len THEN solution_bytes[i] ELSE 0]

\* full_salt: 32 zero bytes with the solution bytes copied to its end.
FullSalt(solution_bytes) ==
  LET solution_len == IF Len(solution_bytes) < 8 THEN Len(solution_bytes) ELSE 8
  IN  [i \in 1..32 |->
         IF i > 32 - solution_len THEN solution_bytes[i - (32 - solution_len)]
         ELSE 0]

\* salt_hex = format!("0x{}", hex::encode(&full_salt)).
SaltHex(full_salt) == <<"0", "x">> \o hex_encode(full_salt)

\* ComputedAddress taking the first 20 bytes of the hash instead of the last.
ComputedAddressFirst20(full_salt) ==
  Slice(Keccak256(<<255>> \o factory \o full_salt \o init_hash), 0, 20)

\* hasher.update(0xff); update(factory); update(full_salt); update(init_hash);
\* computed_address = hash_result[12..32].
ComputedAddress(full_salt) ==
  Slice(Keccak256(<<255>> \o factory \o full_salt \o init_hash), 12, 32)

\* to_checksum_address: strip "0x", lowercase, hash the ASCII text, and
\* upper-case each letter whose nibble of the hash is 8 or more.
to_checksum_address(address) ==
  LET stripped == IF Len(address) >= 2 /\ address[1] = "0" /\ address[2] = "x"
                  THEN Slice(address, 2, Len(address))
                  ELSE address
      lower    == to_lowercase(stripped)
      hash     == Keccak256([i \in 1..Len(lower) |-> Ascii(lower[i])])
      body     == [n \in 1..Len(lower) |->
                     LET i      == n - 1
                         c      == lower[n]
                         byte   == hash[(i \div 2) + 1]
                         nibble == IF i % 2 = 0 THEN byte \div 16 ELSE byte % 16
                     IN  IF IsDecimalDigit(c) THEN c
                         ELSE IF nibble >= 8 THEN to_ascii_uppercase(c)
                         ELSE c]
  IN  <<"0", "x">> \o body

\* ------------------------------------------------ gpu.rs: the result file

HeaderLine ==
  << <<"a", "d", "d", "r", "e", "s", "s">>,
     <<"s", "a", "l", "t">>,
     <<"s", "c", "o", "r", "e">>,
     <<"l", "e", "a", "d", "i", "n", "g", "_", "o", "n", "e", "s">>,
     <<"t", "r", "a", "i", "l", "i", "n", "g", "_", "o", "n", "e", "s">>,
     <<"p", "l", "a", "t", "f", "o", "r", "m">>,
     <<"d", "e", "v", "i", "c", "e">>,
     <<"t", "i", "m", "e", "s", "t", "a", "m", "p">> >>

\* ScanLines giving up, with -1, at a line that has fewer than three parts
\* or whose parts[2] does not parse.
RECURSIVE ScanLinesStrict(_, _, _)
ScanLinesStrict(lines, i, best_score) ==
  IF i > Len(lines) THEN best_score
  ELSE LET parts == lines[i]
           score == IF Len(parts) >= 3 THEN parse_usize(parts[3]) ELSE -1
       IN  IF score = -1 THEN -1
           ELSE ScanLinesStrict(lines, i + 1,
                                IF score > best_score THEN score ELSE best_score)

\* read_current_best_score: 0 when the file cannot be opened; otherwise the
\* largest parts[2] that parses, over the lines after the first.
RECURSIVE ScanLines(_, _, _)
ScanLines(lines, i, best_score) ==
  IF i > Len(lines) THEN best_score
  ELSE LET parts == lines[i]
           score == IF Len(parts) >= 3 THEN parse_usize(parts[3]) ELSE -1
       IN  ScanLines(lines, i + 1, IF score > best_score THEN score ELSE best_score)

read_current_best_score(exists, lines) ==
  IF exists THEN ScanLines(lines, 2, 0) ELSE 0

\* ----------------------------------------------- kernel (spec.md, 4.1, 6)

\* A u32 below 256 as its four bytes, most significant first.
U32(n) == <<0, 0, 0, n>>

\* salt_tail = bswap64((u64(N) << 32) | g).
salt_tail(N, g) == Reverse(N \o U32(g))

\* A u64 as the device stores it in memory (little-endian), which is how the
\* tail lands at byte offsets 24..32 of the candidate salt.
DeviceBytes(x) == Reverse(x)

\* The 85-byte preimage 0xff, D, 24 zero bytes, salt tail, I, with D and I
\* read from the message buffer, and the address: the digest's last 20 bytes.
KernelDigest(msg, N, g) ==
  Keccak256(<<255>> \o Slice(msg, 0, 20) \o Zeros(24)
              \o DeviceBytes(salt_tail(N, g)) \o Slice(msg, 20, 52))

\* KernelDigest for a salt tail given as the u64 the kernel stores.
TailDigest(msg, tail) ==
  Keccak256(<<255>> \o Slice(msg, 0, 20) \o Zeros(24)
              \o DeviceBytes(tail) \o Slice(msg, 20, 52))

\* The hex digits (as numbers) of a 20-byte address.
Nibbles(addr) ==
  [i \in 1..(2 * Len(addr)) |->
     LET b == addr[(i + 1) \div 2] IN IF i % 2 = 1 THEN b \div 16 ELSE b % 16]

RECURSIVE CountLeading(_, _)
CountLeading(nib, i) ==
  IF i > Len(nib) \/ nib[i] # 1 THEN 0 ELSE 1 + CountLeading(nib, i + 1)

RECURSIVE CountTrailing(_, _)
CountTrailing(nib, i) ==
  IF i < 1 \/ nib[i] # 1 THEN 0 ELSE 1 + CountTrailing(nib, i - 1)

LeadingOnes(addr) == CountLeading(Nibbles(addr), 1)

TrailingOnes(addr) == CountTrailing(Nibbles(addr), 2 * Len(addr))

\* VanityOnes: l >= b_leading, t >= b_trailing, l + t > b_best, with the
\* three parameters read from bytes 52, 53 and 54 of the message buffer.
Passes(msg, N, g) ==
  LET addr == Slice(KernelDigest(msg, N, g), 12, 32)
      l    == LeadingOnes(addr)
      t    == TrailingOnes(addr)
  IN  l >= msg[53] /\ t >= msg[54] /\ l + t > msg[55]

\* A fault on the device or on the return path: the same digest with the
\* last byte of the address changed.
Corrupted(digest) == [digest EXCEPT ![32] = (digest[32] + 1) % 256]

\* The base nonces rng.gen::<u32>() is drawn from: under the stand-in hash,
\* 25 gives two passing work items (scores 11 and 10), 22 gives none.
Nonces == {U32(25), U32(22)}

WorkItems == 0..(NumWorkItems - 1)

\* ------------------------------------------------------- main.rs: devices

\* ocl::Platform::list() and ocl::Device::list(): the device types of each
\* platform, in enumeration order.
Platforms == << <<"GPU">>, <<"GPU">> >>

\* The hosts a run is started on: one without a platform, one with a CPU
\* only, Platforms, and one whose second platform lists a CPU before its GPU.
Hosts == {<<>>, << <<"CPU">> >>, Platforms, << <<"GPU">>, <<"CPU", "GPU">> >>}

\* base_config.platform_id, which run_on_all_gpus never overwrites.
BasePlatformId == 0

\* args.gpu, the device index given with --gpu.
GpuArgs == {0, 1}

\* GpuConfigsOf without the test of the device type: one entry per device.
AllDevicesOf(host) ==
  UNION {{<<p, d>> : d \in 0..(Len(host[p + 1]) - 1)} :
         p \in 0..(Len(host) - 1)}

\* gpu_configs as run_on_all_gpus collects it on a host: one entry per device
\* whose type contains "GPU"; an entry is named here by its zero-based
\* (platform, device) indices.
GpuConfigsOf(host) ==
  UNION {{<<p, d>> : d \in {d \in 0..(Len(host[p + 1]) - 1) :
                              host[p + 1][d + 1] = "GPU"}} :
         p \in 0..(Len(host) - 1)}

\* The names of the calls of gpu() a run can make: one per gpu_configs entry
\* in all-GPUs mode, and the call main makes itself with gpu_device = args.gpu.
Sessions ==
  UNION {GpuConfigsOf(host) : host \in Hosts}
    \cup {<<BasePlatformId, g>> : g \in GpuArgs}

\* The Config a worker is given: base_config with gpu_device = device_id.
ConfigOf(s) == [platform_id |-> BasePlatformId, gpu_device |-> s[2]]

\* The device a call of gpu() selects, by its zero-based indices:
\* platforms[config.platform_id], then devices[config.gpu_device].
Opened(s) == <<ConfigOf(s).platform_id, ConfigOf(s).gpu_device>>

\* let display_offset = config.gpu_device * 6; // 6 lines per GPU
RowsPerGpu == 6

\* The terminal rows the status display of a session with configuration cfg
\* moves the cursor to and prints on, once a second: display_offset + 1 to
\* display_offset + 4.
StatusRows(cfg) == {cfg.gpu_device * RowsPerGpu + k : k \in 1..4}

\* ------------------------------------------------------------------- state

VARIABLES
  pc,                 \* where each worker thread is
  cached_best_score,  \* gpu(): cached_best_score
  message,            \* gpu(): the host vector message
  message_buffer,     \* device: message_buffer
  nonce,              \* device: nonce_buffer
  has_solution,       \* device: has_solution_buffer
  solutions,          \* device: solutions_buffer
  digest_output,      \* device: digest_output_buffer (its first 32 bytes)
  witem,              \* kernel: where each work item of the dispatch is
  winners,            \* kernel: the work items that won the CAS this dispatch
  hit,                \* gpu(): the locals of the hit being recorded
  file_exists,        \* gpu(): file_exists
  dispatches,         \* kernel dispatches issued so far, over all sessions
  pathExists,         \* the output path exists
  lines,              \* the lines of the output file
  chan,               \* messages queued on the mpsc channel
  orch,               \* where the main thread is
  proc,               \* the process: running, or how it ended
  platforms,          \* what ocl::Platform::list() and Device::list() return
  args,               \* main: the command line texts
  parsed,             \* main: what parse_address and parse_hash returned
  passing,            \* history: dispatches of a session with a passing item
  appended            \* history: the salts of the records a session appended

vars == <<pc, cached_best_score, message, message_buffer, nonce, has_solution,
          solutions, digest_output, witem, winners, hit, file_exists,
          dispatches, pathExists, lines, chan, orch, proc, platforms,
          args, parsed, passing, appended>>

NoHit == [found |-> FALSE]

gpu_configs == GpuConfigsOf(platforms)

\* The state once run_on_all_gpus has spawned one thread per gpu_configs
\* entry and blocks in rx.recv(); the output file is absent.  A name of
\* Sessions for which gpu() is not called is at "none".
Init ==
  /\ platforms = Platforms
  /\ pc = [s \in Sessions |-> IF s \in gpu_configs THEN "start" ELSE "none"]
  /\ cached_best_score = [s \in Sessions |-> 0]
  /\ message = [s \in Sessions |-> <<>>]
  /\ message_buffer = [s \in Sessions |-> <<>>]
  /\ nonce = [s \in Sessions |-> U32(0)]
  /\ has_solution = [s \in Sessions |-> 0]
  /\ solutions = [s \in Sessions |-> <<Zeros(8), 0, 0>>]
  /\ digest_output = [s \in Sessions |-> Zeros(32)]
  /\ witem = [s \in Sessions |-> [g \in WorkItems |-> "done"]]
  /\ winners = [s \in Sessions |-> {}]
  /\ hit = [s \in Sessions |-> NoHit]
  /\ file_exists = [s \in Sessions |-> FALSE]
  /\ dispatches = 0
  /\ pathExists = FALSE
  /\ lines = <<>>
  /\ chan = 0
  /\ orch = "waiting"
  /\ proc = "running"
  /\ args = DefaultArgs
  /\ parsed = ParseAll(DefaultArgs)
  /\ passing = [s \in Sessions |-> 0]
  /\ appended = [s \in Sessions |-> <<>>]

\* ------------------------------------------------------- gpu(): the session

Running == proc = "running"

\* InitialMessage pushing 255 as the last byte instead of best_score as u8.
InitialMessageSaturated(best_score) ==
  factory \o init_hash
    \o <<min_leading_ones % 256, min_trailing_ones % 256, 255>>

\* message: D, I, min_leading_ones as u8, min_trailing_ones as u8,
\* best_score as u8.
InitialMessage(best_score) ==
  factory \o init_hash
    \o <<min_leading_ones % 256, min_trailing_ones % 256, best_score % 256>>

\* DeviceAvailable without the check of config.gpu_device.
DeviceAvailablePlatformOnly(cfg) ==
  /\ Len(platforms) > 0
  /\ cfg.platform_id < Len(platforms)

\* The platform and device checks of gpu().
DeviceAvailable(cfg) ==
  /\ Len(platforms) > 0
  /\ cfg.platform_id < Len(platforms)
  /\ cfg.gpu_device < Len(platforms[cfg.platform_id + 1])

\* ReturnErr for a failure that is not returned: after setup, the session
\* stays in its loop and tries the next dispatch.
ReturnErrRetries(s) ==
  /\ pc' = [pc EXCEPT ![s] = IF pc[s] = "start" THEN "err" ELSE "loop"]
  /\ UNCHANGED <<cached_best_score, message, message_buffer, nonce,
                 has_solution, solutions, digest_output, witem, winners, hit,
                 file_exists>>

\* gpu() returns Err(..): its locals, buffers and kernel are dropped.
ReturnErr(s) ==
  /\ pc' = [pc EXCEPT ![s] = "err"]
  /\ cached_best_score' = [cached_best_score EXCEPT ![s] = 0]
  /\ message' = [message EXCEPT ![s] = <<>>]
  /\ message_buffer' = [message_buffer EXCEPT ![s] = <<>>]
  /\ nonce' = [nonce EXCEPT ![s] = U32(0)]
  /\ has_solution' = [has_solution EXCEPT ![s] = 0]
  /\ solutions' = [solutions EXCEPT ![s] = <<Zeros(8), 0, 0>>]
  /\ digest_output' = [digest_output EXCEPT ![s] = Zeros(32)]
  /\ witem' = [witem EXCEPT ![s] = [g \in WorkItems |-> "done"]]
  /\ winners' = [winners EXCEPT ![s] = {}]
  /\ hit' = [hit EXCEPT ![s] = NoHit]
  /\ file_exists' = [file_exists EXCEPT ![s] = FALSE]

\* gpu() up to the main loop: read the best score, build the message, select
\* the device, build context, queue, program, buffers and kernel.  Any of the
\* OpenCL calls may fail (built = FALSE), and gpu() then returns Err.
Setup(s) ==
  /\ Running
  /\ pc[s] = "start"
  /\ \E built \in BOOLEAN :
       LET best_score == read_current_best_score(pathExists, lines) IN
       IF DeviceAvailable(ConfigOf(s)) /\ built
       THEN /\ cached_best_score' = [cached_best_score EXCEPT ![s] = best_score]
            /\ message' = [message EXCEPT ![s] = InitialMessage(best_score)]
            /\ message_buffer' = [message_buffer EXCEPT ![s] = message'[s]]
            /\ has_solution' = [has_solution EXCEPT ![s] = 0]
            /\ solutions' = [solutions EXCEPT ![s] = <<Zeros(8), 0, 0>>]
            /\ digest_output' = [digest_output EXCEPT ![s] = Zeros(32)]
            /\ pc' = [pc EXCEPT ![s] = "loop"]
            /\ UNCHANGED <<nonce, witem, winners, hit, file_exists>>
       ELSE ReturnErr(s)
  /\ UNCHANGED <<dispatches, pathExists, lines, chan, orch, proc, platforms,
                 args, parsed, passing, appended>>

\* Dispatch storing the score one byte early, at message[53].
DispatchSetsByte53(s) ==
  /\ Running
  /\ pc[s] = "loop"
  /\ dispatches < MaxDispatch
  /\ \E elapsed \in BOOLEAN, N \in Nonces, sent \in BOOLEAN :
       LET best_score == IF elapsed
                         THEN read_current_best_score(pathExists, lines)
                         ELSE cached_best_score[s] IN
       IF sent
       THEN /\ cached_best_score' = [cached_best_score EXCEPT ![s] = best_score]
            /\ message' = [message EXCEPT ![s][54] = best_score % 256]
            /\ nonce' = [nonce EXCEPT ![s] = N]
            /\ witem' = [witem EXCEPT ![s] =
                           [g \in WorkItems |->
                              IF Passes(message_buffer[s], N, g)
                              THEN "cas" ELSE "done"]]
            /\ winners' = [winners EXCEPT ![s] = {}]
            /\ pc' = [pc EXCEPT ![s] = "kernel"]
            /\ passing' = [passing EXCEPT ![s] =
                             IF \E g \in WorkItems : Passes(message_buffer[s], N, g)
                             THEN @ + 1 ELSE @]
            /\ UNCHANGED <<message_buffer, has_solution, solutions,
                           digest_output, hit, file_exists>>
       ELSE ReturnErr(s) /\ UNCHANGED passing
  /\ dispatches' = dispatches + 1
  /\ UNCHANGED <<pathExists, lines, chan, orch, proc, platforms,
                 args, parsed, appended>>

\* The head of one loop iteration: refresh the cached score when 5 seconds
\* have passed (elapsed), set message[54], draw the nonce, write it and
\* enqueue the kernel.  A failing write or enqueue (sent = FALSE) makes gpu()
\* return Err.
Dispatch(s) ==
  /\ Running
  /\ pc[s] = "loop"
  /\ dispatches < MaxDispatch
  /\ \E elapsed \in BOOLEAN, N \in Nonces, sent \in BOOLEAN :
       LET best_score == IF elapsed
                         THEN read_current_best_score(pathExists, lines)
                         ELSE cached_best_score[s] IN
       IF sent
       THEN /\ cached_best_score' = [cached_best_score EXCEPT ![s] = best_score]
            /\ message' = [message EXCEPT ![s][55] = best_score % 256]
            /\ nonce' = [nonce EXCEPT ![s] = N]
            /\ witem' = [witem EXCEPT ![s] =
                           [g \in WorkItems |->
                              IF Passes(message_buffer[s], N, g)
                              THEN "cas" ELSE "done"]]
            /\ winners' = [winners EXCEPT ![s] = {}]
            /\ pc' = [pc EXCEPT ![s] = "kernel"]
            /\ passing' = [passing EXCEPT ![s] =
                             IF \E g \in WorkItems : Passes(message_buffer[s], N, g)
                             THEN @ + 1 ELSE @]
            /\ UNCHANGED <<message_buffer, has_solution, solutions,
                           digest_output, hit, file_exists>>
       ELSE ReturnErr(s) /\ UNCHANGED passing
  /\ dispatches' = dispatches + 1
  /\ UNCHANGED <<pathExists, lines, chan, orch, proc, platforms,
                 args, parsed, appended>>

\* Kernel, step 6: a passing work item tries to claim the slot by
\* compare-and-swap of has_solution from 0 to 1; a loser returns.
WorkItemCAS(s, g) ==
  /\ Running
  /\ pc[s] = "kernel"
  /\ witem[s][g] = "cas"
  /\ IF has_solution[s] = 0
     THEN /\ has_solution' = [has_solution EXCEPT ![s] = 1]
          /\ winners' = [winners EXCEPT ![s] = @ \cup {g}]
          /\ witem' = [witem EXCEPT ![s][g] = "write"]
     ELSE /\ witem' = [witem EXCEPT ![s][g] = "done"]
          /\ UNCHANGED <<has_solution, winners>>
  /\ UNCHANGED <<pc, cached_best_score, message, message_buffer, nonce,
                 solutions, digest_output, hit, file_exists, dispatches,
                 pathExists, lines, chan, orch, proc, platforms,
                 args, parsed, passing, appended>>

\* Kernel, step 6: the winner writes solutions = { salt_tail, l, t } and its
\* keccak state to digest_output; what arrives may be a faulty digest.
WorkItemWrite(s, g) ==
  /\ Running
  /\ pc[s] = "kernel"
  /\ witem[s][g] = "write"
  /\ LET digest == KernelDigest(message_buffer[s], nonce[s], g)
         addr   == Slice(digest, 12, 32)
     IN  /\ solutions' = [solutions EXCEPT ![s] =
                            <<salt_tail(nonce[s], g), LeadingOnes(addr), TrailingOnes(addr)>>]
         /\ \E d \in {digest, Corrupted(digest)} :
              digest_output' = [digest_output EXCEPT ![s] = d]
  /\ witem' = [witem EXCEPT ![s][g] = "done"]
  /\ UNCHANGED <<pc, cached_best_score, message, message_buffer, nonce,
                 has_solution, winners, hit, file_exists, dispatches,
                 pathExists, lines, chan, orch, proc, platforms,
                 args, parsed, passing, appended>>

\* KernelDone for reads that return while work items still run.
KernelEnqueued(s) == pc[s] = "kernel"

\* The kernel of the dispatch in flight has run to completion.
KernelDone(s) ==
  pc[s] = "kernel" /\ \A g \in WorkItems : witem[s][g] = "done"

\* The locals of the hit branch, from what the three reads returned.
HitLocals(s) ==
  LET solution_bytes == u64_to_le_fixed_8(solutions[s][1])
      leading_ones   == solutions[s][2]
      trailing_ones  == solutions[s][3]
      full_salt      == FullSalt(solution_bytes)
  IN  [found                |-> TRUE,
       hex_address          |-> hex_encode(Slice(digest_output[s], 12, 32)),
       current_score        |-> leading_ones + trailing_ones,
       leading_ones         |-> leading_ones,
       trailing_ones        |-> trailing_ones,
       best_score           |-> cached_best_score[s],
       salt_hex             |-> SaltHex(full_salt),
       computed_checksummed |-> to_checksum_address(hex_encode(ComputedAddress(full_salt)))]

\* if current_score >= 11 || current_score > best_score
Recorded(current_score, best_score) ==
  current_score >= AlwaysRecordScore \/ current_score > best_score

\* The three blocking reads, which complete once the kernel has, and the
\* check of has_solution.  A failing read (read = FALSE) makes gpu() return
\* Err.
Harvest(s) ==
  /\ Running
  /\ KernelDone(s)
  /\ \E read \in BOOLEAN :
       IF ~read
       THEN ReturnErr(s)
       ELSE /\ IF has_solution[s] # 0
                  /\ Recorded(HitLocals(s).current_score, cached_best_score[s])
               THEN /\ hit' = [hit EXCEPT ![s] = HitLocals(s)]
                    /\ pc' = [pc EXCEPT ![s] = "exists"]
               ELSE /\ pc' = [pc EXCEPT ![s] = "loop"]
                    /\ UNCHANGED hit
            /\ winners' = [winners EXCEPT ![s] = {}]
            /\ UNCHANGED <<cached_best_score, message, message_buffer, nonce,
                           has_solution, solutions, digest_output, witem,
                           file_exists>>
  /\ UNCHANGED <<dispatches, pathExists, lines, chan, orch, proc, platforms,
                 args, parsed, passing, appended>>

\* let file_exists = Path::new(&config.output_file).exists();
CheckExists(s) ==
  /\ Running
  /\ pc[s] = "exists"
  /\ file_exists' = [file_exists EXCEPT ![s] = pathExists]
  /\ pc' = [pc EXCEPT ![s] = "open"]
  /\ UNCHANGED <<cached_best_score, message, message_buffer, nonce,
                 has_solution, solutions, digest_output, witem, winners, hit,
                 dispatches, pathExists, lines, chan, orch, proc, platforms,
                 args, parsed, passing, appended>>

\* OpenOptions::new().write(true).create(true).append(true).open(..)
OpenFile(s) ==
  /\ Running
  /\ pc[s] = "open"
  /\ pathExists' = TRUE
  /\ pc' = [pc EXCEPT ![s] = IF file_exists[s] THEN "record" ELSE "header"]
  /\ UNCHANGED <<cached_best_score, message, message_buffer, nonce,
                 has_solution, solutions, digest_output, witem, winners, hit,
                 file_exists, dispatches, lines, chan, orch, proc, platforms,
                 args, parsed, passing, appended>>

\* WriteHeader on a file opened with truncate(true) instead of append(true).
WriteHeaderTruncating(s) ==
  /\ Running
  /\ pc[s] = "header"
  /\ lines' = <<HeaderLine>>
  /\ pc' = [pc EXCEPT ![s] = "record"]
  /\ UNCHANGED <<cached_best_score, message, message_buffer, nonce,
                 has_solution, solutions, digest_output, witem, winners, hit,
                 file_exists, dispatches, pathExists, chan, orch, proc, platforms,
                 args, parsed, passing, appended>>

\* if !file_exists { writeln!(file, "address,salt,...") }
WriteHeader(s) ==
  /\ Running
  /\ pc[s] = "header"
  /\ lines' = Append(lines, HeaderLine)
  /\ pc' = [pc EXCEPT ![s] = "record"]
  /\ UNCHANGED <<cached_best_score, message, message_buffer, nonce,
                 has_solution, solutions, digest_output, witem, winners, hit,
                 file_exists, dispatches, pathExists, chan, orch, proc, platforms,
                 args, parsed, passing, appended>>

\* RecordLine with the leading_ones and trailing_ones columns exchanged.
RecordLineSwapped(h, cfg) ==
  <<h.computed_checksummed, h.salt_hex, ToDecimal(h.current_score),
    ToDecimal(h.trailing_ones), ToDecimal(h.leading_ones),
    ToDecimal(cfg.platform_id), ToDecimal(cfg.gpu_device), ToDecimal(0)>>

\* The line of a hit; the timestamp column is the wall clock, of which the
\* model keeps no more than that it is a number.
RecordLine(h, cfg) ==
  <<h.computed_checksummed, h.salt_hex, ToDecimal(h.current_score),
    ToDecimal(h.leading_ones), ToDecimal(h.trailing_ones),
    ToDecimal(cfg.platform_id), ToDecimal(cfg.gpu_device), ToDecimal(0)>>

\* writeln!(file, "{},{},{},{},{},{},{},{}", ...); the locals of the hit
\* branch go out of scope and the loop goes on.
WriteRecord(s) ==
  /\ Running
  /\ pc[s] = "record"
  /\ lines' = Append(lines, RecordLine(hit[s], ConfigOf(s)))
  /\ appended' = [appended EXCEPT ![s] = Append(@, hit[s].salt_hex)]
  /\ hit' = [hit EXCEPT ![s] = NoHit]
  /\ file_exists' = [file_exists EXCEPT ![s] = FALSE]
  /\ pc' = [pc EXCEPT ![s] = "loop"]
  /\ UNCHANGED <<cached_best_score, message, message_buffer, nonce,
                 has_solution, solutions, digest_output, witem, winners,
                 dispatches, pathExists, chan, orch, proc, platforms,
                 args, parsed, passing>>

\* --------------------------------------- main.rs: the worker and the wait

\* The worker closure after gpu() returned Err: print it, then tx.send(()).
Signal(s) ==
  /\ Running
  /\ orch # "single"
  /\ pc[s] = "err"
  /\ chan' = chan + 1
  /\ pc' = [pc EXCEPT ![s] = "done"]
  /\ UNCHANGED <<cached_best_score, message, message_buffer, nonce,
                 has_solution, solutions, digest_output, witem, winners, hit,
                 file_exists, dispatches, pathExists, lines, orch, proc, platforms,
                 args, parsed, passing, appended>>

\* A worker whose gpu() call has not returned.
InGpu(s) == pc[s] \notin {"none", "err", "done", "killed"}

\* OrchRecv returning without a message on the channel.
OrchRecvNoWait ==
  /\ Running
  /\ orch = "waiting"
  /\ chan' = chan
  /\ orch' = "returned"
  /\ UNCHANGED <<pc, cached_best_score, message, message_buffer, nonce,
                 has_solution, solutions, digest_output, witem, winners, hit,
                 file_exists, dispatches, pathExists, lines, proc, platforms,
                 args, parsed, passing, appended>>

\* let _ = rx.recv(); println!(..); Ok(()): run_on_all_gpus returns once a
\* message is on the channel.
OrchRecv ==
  /\ Running
  /\ orch = "waiting"
  /\ chan > 0
  /\ chan' = chan - 1
  /\ orch' = "returned"
  /\ UNCHANGED <<pc, cached_best_score, message, message_buffer, nonce,
                 has_solution, solutions, digest_output, witem, winners, hit,
                 file_exists, dispatches, pathExists, lines, proc, platforms,
                 args, parsed, passing, appended>>

\* main returns Ok(()) after run_on_all_gpus did, which ends the process:
\* every thread still running is torn down with its memory and its device
\* buffers.
MainExit ==
  /\ Running
  /\ orch = "returned"
  /\ proc' = "exited"
  /\ pc' = [s \in Sessions |->
              IF pc[s] \in {"none", "done"} THEN pc[s] ELSE "killed"]
  /\ cached_best_score' = [s \in Sessions |-> 0]
  /\ message' = [s \in Sessions |-> <<>>]
  /\ message_buffer' = [s \in Sessions |-> <<>>]
  /\ nonce' = [s \in Sessions |-> U32(0)]
  /\ has_solution' = [s \in Sessions |-> 0]
  /\ solutions' = [s \in Sessions |-> <<Zeros(8), 0, 0>>]
  /\ digest_output' = [s \in Sessions |-> Zeros(32)]
  /\ witem' = [s \in Sessions |-> [g \in WorkItems |-> "done"]]
  /\ winners' = [s \in Sessions |-> {}]
  /\ hit' = [s \in Sessions |-> NoHit]
  /\ file_exists' = [s \in Sessions |-> FALSE]
  /\ UNCHANGED <<dispatches, pathExists, lines, chan, orch, platforms,
                 args, parsed, passing, appended>>

Next ==
  \/ \E s \in Sessions : Setup(s)
  \/ \E s \in Sessions : Dispatch(s)
  \/ \E s \in Sessions, g \in WorkItems : WorkItemCAS(s, g)
  \/ \E s \in Sessions, g \in WorkItems : WorkItemWrite(s, g)
  \/ \E s \in Sessions : Harvest(s)
  \/ \E s \in Sessions : CheckExists(s)
  \/ \E s \in Sessions : OpenFile(s)
  \/ \E s \in Sessions : WriteHeader(s)
  \/ \E s \in Sessions : WriteRecord(s)
  \/ \E s \in Sessions : Signal(s)
  \/ OrchRecv
  \/ MainExit

Spec == Init /\ [][Next]_vars

\* The worker threads and the main thread are scheduled by the operating
\* system: a worker whose gpu() returned eventually sends, and once rx.recv()
\* can return, it eventually does.
FairSpec ==
  Spec /\ WF_vars(OrchRecv) /\ \A s \in Sessions : WF_vars(Signal(s))

\* ----------------------------------------------- main.rs: main and its modes

\* What a call of gpu() owns: its locals and its device buffers.
sessionVars == <<cached_best_score, message, message_buffer, nonce,
                 has_solution, solutions, digest_output, witem, winners, hit,
                 file_exists>>

\* The state in which main has parsed its arguments and built base_config, on
\* any host of Hosts; no thread is spawned and the output file is absent.
MainInit ==
  /\ platforms \in Hosts
  /\ pc = [s \in Sessions |-> "none"]
  /\ cached_best_score = [s \in Sessions |-> 0]
  /\ message = [s \in Sessions |-> <<>>]
  /\ message_buffer = [s \in Sessions |-> <<>>]
  /\ nonce = [s \in Sessions |-> U32(0)]
  /\ has_solution = [s \in Sessions |-> 0]
  /\ solutions = [s \in Sessions |-> <<Zeros(8), 0, 0>>]
  /\ digest_output = [s \in Sessions |-> Zeros(32)]
  /\ witem = [s \in Sessions |-> [g \in WorkItems |-> "done"]]
  /\ winners = [s \in Sessions |-> {}]
  /\ hit = [s \in Sessions |-> NoHit]
  /\ file_exists = [s \in Sessions |-> FALSE]
  /\ dispatches = 0
  /\ pathExists = FALSE
  /\ lines = <<>>
  /\ chan = 0
  /\ orch = "main"
  /\ proc = "running"
  /\ args = DefaultArgs
  /\ parsed = ParseAll(DefaultArgs)
  /\ passing = [s \in Sessions |-> 0]
  /\ appended = [s \in Sessions |-> <<>>]

\* args.all_gpus: run_on_all_gpus up to rx.recv().  It returns Err when
\* there is no platform or no GPU among the devices, and otherwise spawns one
\* thread per gpu_configs entry.
Enumerate ==
  /\ Running
  /\ orch = "main"
  /\ IF Len(platforms) = 0 \/ gpu_configs = {}
     THEN /\ orch' = "nodevices"
          /\ UNCHANGED pc
     ELSE /\ orch' = "waiting"
          /\ pc' = [s \in Sessions |-> IF s \in gpu_configs THEN "start" ELSE "none"]
  /\ UNCHANGED <<sessionVars, dispatches, pathExists, lines, chan, proc, platforms,
                 args, parsed, passing, appended>>

\* run_on_all_gpus(base_config)? with an Err: main returns the error, and a
\* main that returns Err ends the process with status 1.
MainErr ==
  /\ Running
  /\ orch = "nodevices"
  /\ proc' = "failed"
  /\ UNCHANGED <<pc, sessionVars, dispatches, pathExists, lines, chan, orch, platforms,
                 args, parsed, passing, appended>>

\* !args.all_gpus: main calls gpu(base_config) itself, gpu_device = args.gpu.
SingleStart ==
  /\ Running
  /\ orch = "main"
  /\ \E g \in GpuArgs : pc' = [pc EXCEPT ![<<BasePlatformId, g>>] = "start"]
  /\ orch' = "single"
  /\ UNCHANGED <<sessionVars, dispatches, pathExists, lines, chan, proc, platforms,
                 args, parsed, passing, appended>>

\* if let Err(e) = gpu(base_config) { eprintln!(..); process::exit(1); }
SingleFail(s) ==
  /\ Running
  /\ orch = "single"
  /\ pc[s] = "err"
  /\ pc' = [pc EXCEPT ![s] = "done"]
  /\ proc' = "failed"
  /\ UNCHANGED <<sessionVars, dispatches, pathExists, lines, chan, orch, platforms,
                 args, parsed, passing, appended>>

MainNext ==
  \/ Enumerate
  \/ MainErr
  \/ SingleStart
  \/ \E s \in Sessions : SingleFail(s)
  \/ Next

MainSpec == MainInit /\ [][MainNext]_vars

\* ------------------------------------ gpu.rs: the writes to the file failing

\* The process ends: every thread is torn down with its memory and its
\* device buffers.
TornDown ==
  /\ pc' = [s \in Sessions |->
              IF pc[s] \in {"none", "done"} THEN pc[s] ELSE "killed"]
  /\ cached_best_score' = [s \in Sessions |-> 0]
  /\ message' = [s \in Sessions |-> <<>>]
  /\ message_buffer' = [s \in Sessions |-> <<>>]
  /\ nonce' = [s \in Sessions |-> U32(0)]
  /\ has_solution' = [s \in Sessions |-> 0]
  /\ solutions' = [s \in Sessions |-> <<Zeros(8), 0, 0>>]
  /\ digest_output' = [s \in Sessions |-> Zeros(32)]
  /\ witem' = [s \in Sessions |-> [g \in WorkItems |-> "done"]]
  /\ winners' = [s \in Sessions |-> {}]
  /\ hit' = [s \in Sessions |-> NoHit]
  /\ file_exists' = [s \in Sessions |-> FALSE]

\* .open(&config.output_file).unwrap_or_else(|e| { eprintln!(..);
\* std::process::exit(1); }) when the open fails.
OpenFileFails(s) ==
  /\ Running
  /\ pc[s] = "open"
  /\ proc' = "failed"
  /\ TornDown
  /\ UNCHANGED <<dispatches, pathExists, lines, chan, orch, platforms,
                 args, parsed, passing, appended>>

\* writeln!(file, "address,salt,...").unwrap_or_else(|e| eprintln!(..)) when
\* the write fails: nothing is written, and the record is written next.
WriteHeaderFails(s) ==
  /\ Running
  /\ pc[s] = "header"
  /\ pc' = [pc EXCEPT ![s] = "record"]
  /\ UNCHANGED <<sessionVars, dispatches, pathExists, lines, chan, orch,
                 proc, platforms,
                 args, parsed, passing, appended>>

\* writeln!(file, "{},{},...").unwrap_or_else(|e| eprintln!(..)) when the
\* write fails: nothing is written, and the loop goes on.
WriteRecordFails(s) ==
  /\ Running
  /\ pc[s] = "record"
  /\ hit' = [hit EXCEPT ![s] = NoHit]
  /\ file_exists' = [file_exists EXCEPT ![s] = FALSE]
  /\ pc' = [pc EXCEPT ![s] = "loop"]
  /\ UNCHANGED <<cached_best_score, message, message_buffer, nonce,
                 has_solution, solutions, digest_output, witem, winners,
                 dispatches, pathExists, lines, chan, orch, proc, platforms,
                 args, parsed, passing, appended>>

SinkFailNext ==
  \/ \E s \in Sessions : OpenFileFails(s)
  \/ \E s \in Sessions : WriteHeaderFails(s)
  \/ \E s \in Sessions : WriteRecordFails(s)
  \/ Next

\* The run of Spec with an output path whose open or write can fail.
SinkFailSpec == Init /\ [][SinkFailNext]_vars

\* -------------------------------------------- gpu.rs: the hit branch alone

\* Bytes the nonce and the work item index are made of below.
SampleBytes == {0, 1, 255}

\* Salt tails bswap64((N << 32) | g), for nonces N and work items g whose
\* bytes are sample bytes, g below WORK_SIZE = 0x4000000.
SampleTails ==
  {Reverse(N \o G) : N \in [1..4 -> SampleBytes],
                     G \in {G \in [1..4 -> {0, 3, 255}] : G[1] # 255}}

\* main's own call of gpu(), with --gpu 0.
HitSession == <<BasePlatformId, 0>>

\* The state in which the first dispatch of HitSession has completed with a
\* hit: a work item whose salt tail is one of SampleTails passed the
\* predicate, won the compare-and-swap and wrote solutions and digest_output.
HitInit ==
  /\ platforms = Platforms
  /\ pc = [s \in Sessions |-> IF s = HitSession THEN "kernel" ELSE "none"]
  /\ cached_best_score = [s \in Sessions |-> 0]
  /\ message = [s \in Sessions |->
                  IF s = HitSession THEN InitialMessage(0) ELSE <<>>]
  /\ message_buffer = message
  /\ has_solution = [s \in Sessions |-> IF s = HitSession THEN 1 ELSE 0]
  /\ \E tail \in SampleTails :
       LET digest == TailDigest(InitialMessage(0), tail)
           addr   == Slice(digest, 12, 32)
           l      == LeadingOnes(addr)
           t      == TrailingOnes(addr)
       IN  /\ l >= min_leading_ones
           /\ t >= min_trailing_ones
           /\ l + t > 0
           /\ nonce = [s \in Sessions |->
                         IF s = HitSession THEN Slice(Reverse(tail), 0, 4)
                         ELSE U32(0)]
           /\ solutions = [s \in Sessions |->
                             IF s = HitSession THEN <<tail, l, t>>
                             ELSE <<Zeros(8), 0, 0>>]
           /\ digest_output = [s \in Sessions |->
                                 IF s = HitSession THEN digest ELSE Zeros(32)]
  /\ witem = [s \in Sessions |-> [g \in WorkItems |-> "done"]]
  /\ winners = [s \in Sessions |-> {}]
  /\ hit = [s \in Sessions |-> NoHit]
  /\ file_exists = [s \in Sessions |-> FALSE]
  /\ dispatches = 1
  /\ pathExists = FALSE
  /\ lines = <<>>
  /\ chan = 0
  /\ orch = "single"
  /\ proc = "running"
  /\ args = DefaultArgs
  /\ parsed = ParseAll(DefaultArgs)
  /\ passing = [s \in Sessions |-> 0]
  /\ appended = [s \in Sessions |-> <<>>]

\* The rest of the iteration: the reads, the hit branch and the append.
HitNext ==
  \/ \E s \in Sessions : Harvest(s)
  \/ \E s \in Sessions : CheckExists(s)
  \/ \E s \in Sessions : OpenFile(s)
  \/ \E s \in Sessions : WriteHeader(s)
  \/ \E s \in Sessions : WriteRecord(s)

HitSpec == HitInit /\ [][HitNext]_vars

\* ------------------------------------ gpu.rs: the first read of the file

\* Lines of an output file that is there when the run starts.
MaxFileLines == 4

\* The header line, records with the scores 7 and 11, a line of two fields,
\* a line whose third field is not a number, one whose third field has a
\* sign, a record with the score 300, and an empty line.
SampleLines ==
  {HeaderLine,
   << <<"0", "x", "a">>, <<"0", "x", "1">>, <<"7">>, <<"3">>, <<"4">> >>,
   << <<"0", "x", "b">>, <<"0", "x", "2">>, <<"1", "1">>, <<"4">>, <<"7">> >>,
   << <<"0", "x", "c">>, <<"1", "2">> >>,
   << <<"0", "x", "d">>, <<"0", "x", "3">>, <<"1", "x">>, <<"9">> >>,
   << <<"0", "x", "e">>, <<"0", "x", "4">>, <<"-", "5">> >>,
   << <<"0", "x", "f">>, <<"0", "x", "5">>, <<"3", "0", "0">>, <<"9">>, <<"9">> >>,
   << <<>> >>}

SampleFiles == UNION {[1..n -> SampleLines] : n \in 0..MaxFileLines}

\* The state in which main calls gpu() itself (--gpu 0), the output path
\* either absent or a file of SampleFiles.
ReadInit ==
  /\ platforms = Platforms
  /\ pc = [s \in Sessions |-> IF s = HitSession THEN "start" ELSE "none"]
  /\ cached_best_score = [s \in Sessions |-> 0]
  /\ message = [s \in Sessions |-> <<>>]
  /\ message_buffer = [s \in Sessions |-> <<>>]
  /\ nonce = [s \in Sessions |-> U32(0)]
  /\ has_solution = [s \in Sessions |-> 0]
  /\ solutions = [s \in Sessions |-> <<Zeros(8), 0, 0>>]
  /\ digest_output = [s \in Sessions |-> Zeros(32)]
  /\ witem = [s \in Sessions |-> [g \in WorkItems |-> "done"]]
  /\ winners = [s \in Sessions |-> {}]
  /\ hit = [s \in Sessions |-> NoHit]
  /\ file_exists = [s \in Sessions |-> FALSE]
  /\ dispatches = 0
  /\ pathExists \in BOOLEAN
  /\ lines \in IF pathExists THEN SampleFiles ELSE {<<>>}
  /\ chan = 0
  /\ orch = "single"
  /\ proc = "running"
  /\ args = DefaultArgs
  /\ parsed = ParseAll(DefaultArgs)
  /\ passing = [s \in Sessions |-> 0]
  /\ appended = [s \in Sessions |-> <<>>]

\* gpu() up to its main loop, which reads the best score of the file.
ReadNext == \E s \in Sessions : Setup(s)

ReadSpec == ReadInit /\ [][ReadNext]_vars

\* ------------------------------------------------ main: the parse alone

\* A text of n hex digits, the i-th being digit (i * k) mod 16.
HexText(n, k) == [i \in 1..n |-> HexDigits[((i * k) % 16) + 1]]

\* Texts for --deployer: empty, a bare 0x, short ones of odd and even
\* length in either case, 39 to 44 digits with and without 0x, and texts
\* with a character that is no hex digit.
SampleDeployers ==
  {<<>>, <<"0", "x">>, <<"1">>, <<"0", "x", "1">>, <<"a", "b", "c">>,
   <<"A", "b", "C", "d">>, HexText(39, 7), HexText(40, 7),
   <<"0", "x">> \o HexText(40, 3), HexText(41, 5),
   <<"0", "x">> \o HexText(42, 5), HexText(44, 11),
   <<"0", "x", "g", "1">>, <<"1", "2", "z", "4">>, <<"0", "X", "1", "2">>,
   HexText(39, 7) \o <<"g">>}

SampleCallers == {<<"0", "x">> \o HexText(40, 9), <<"0", "x", "q">>}

\* Texts for --init-code-hash, of the same kinds.
SampleHashes ==
  {<<>>, <<"f", "f">>, HexText(63, 5), HexText(64, 7),
   <<"0", "x">> \o HexText(64, 3), HexText(65, 5), HexText(66, 9),
   <<"z", "z">>}

SampleArgs ==
  [deployer : SampleDeployers, caller : SampleCallers,
   init_code_hash : SampleHashes]

\* main after Args::parse(), with any command line of SampleArgs.
ParseInit ==
  /\ platforms = Platforms
  /\ pc = [s \in Sessions |-> "none"]
  /\ cached_best_score = [s \in Sessions |-> 0]
  /\ message = [s \in Sessions |-> <<>>]
  /\ message_buffer = [s \in Sessions |-> <<>>]
  /\ nonce = [s \in Sessions |-> U32(0)]
  /\ has_solution = [s \in Sessions |-> 0]
  /\ solutions = [s \in Sessions |-> <<Zeros(8), 0, 0>>]
  /\ digest_output = [s \in Sessions |-> Zeros(32)]
  /\ witem = [s \in Sessions |-> [g \in WorkItems |-> "done"]]
  /\ winners = [s \in Sessions |-> {}]
  /\ hit = [s \in Sessions |-> NoHit]
  /\ file_exists = [s \in Sessions |-> FALSE]
  /\ dispatches = 0
  /\ pathExists = FALSE
  /\ lines = <<>>
  /\ chan = 0
  /\ orch = "args"
  /\ proc = "running"
  /\ args \in SampleArgs
  /\ parsed = <<>>
  /\ passing = [s \in Sessions |-> 0]
  /\ appended = [s \in Sessions |-> <<>>]

\* main.rs:54-56: the three parses; the first error makes main return it.
ParseArgs ==
  /\ Running
  /\ orch = "args"
  /\ parsed' = ParseAll(args)
  /\ IF Len(ParseAll(args)) = 3 /\ ParseAll(args)[3].ok
     THEN orch' = "main" /\ UNCHANGED proc
     ELSE proc' = "failed" /\ UNCHANGED orch
  /\ UNCHANGED sessionVars
  /\ UNCHANGED <<pc, dispatches, pathExists, lines, chan, platforms, args,
                 passing, appended>>

ParseNext == ParseArgs

ParseSpec == ParseInit /\ [][ParseNext]_vars

\* The status the process ended with: 0 when main returned Ok(()), 1 when it
\* returned Err or process::exit(1) was called.
ExitStatus == IF proc = "exited" THEN 0 ELSE 1

\* ------------------------------------------------------------------ claims

\* The records of the file: its lines other than header lines.
RecordIndices == {i \in 1..Len(lines) : lines[i] # HeaderLine}

\* The CREATE2 address of a salt given as 0x and 64 hex digits: the low 20
\* bytes of keccak-256(0xff, D, salt, I), as 40 lowercase hex digits.
Create2Hex(salt_hex) ==
  hex_encode(Slice(Keccak256(<<255>> \o factory
                               \o hex_decode(Slice(salt_hex, 2, Len(salt_hex)))
                               \o init_hash), 12, 32))

\* A worker in the main loop of gpu().
InLoop(s) == pc[s] \in {"loop", "kernel", "exists", "open", "header", "record"}

\* The step in which session s appends the record of its hit.
Appends(s) == pc[s] = "record" /\ pc'[s] = "loop" /\ lines' # lines

\* C1: a hit whose address in digest_output (bytes 12..32) differs from the
\* address the host recomputes from the salt is never appended: every step
\* that appends a record does so for a hit whose two addresses agree.
C1_MismatchedHitIsDiscarded ==
  [][\A s \in Sessions :
       Appends(s) => hit[s].hex_address = Create2Hex(hit[s].salt_hex)]_vars

\* C2: while a dispatch is in flight, byte 54 of the device-side message
\* buffer, which the kernel reads as b_best, is the value the session's last
\* score refresh returned.
C2_DispatchCarriesRefreshedScore ==
  \A s \in Sessions :
    pc[s] = "kernel" => message_buffer[s][55] = cached_best_score[s]

\* C3: every record a session appends has leading_ones + trailing_ones
\* strictly greater than the best score the session held when it dispatched.
C3_RecordBeatsBestAtDispatch ==
  [][\A s \in Sessions :
       Appends(s) => hit[s].current_score > hit[s].best_score]_vars

\* C4: at the start of every kernel dispatch the has_solution flag in the
\* device buffer is 0.
C4_FlagClearOnEntry ==
  [][\A s \in Sessions :
       (pc[s] = "loop" /\ pc'[s] = "kernel") => has_solution[s] = 0]_vars

\* C5: when the kernel of a dispatch in which some work item passed has
\* completed, exactly one work item of that dispatch has won the
\* compare-and-swap, and solutions and digest_output are the ones that work
\* item wrote.
C5_ExactlyOneWinnerPerDispatch ==
  \A s \in Sessions :
    (KernelDone(s) /\ \E g \in WorkItems : Passes(message_buffer[s], nonce[s], g))
      => \E g \in WorkItems :
           LET digest == KernelDigest(message_buffer[s], nonce[s], g)
               addr   == Slice(digest, 12, 32)
           IN  /\ winners[s] = {g}
               /\ solutions[s] = <<salt_tail(nonce[s], g), LeadingOnes(addr),
                                   TrailingOnes(addr)>>
               /\ digest_output[s] \in {digest, Corrupted(digest)}

\* C6: the address of every record in the file is the EIP-55 casing of the
\* low 20 bytes of keccak-256(0xff, D, salt, I), salt being the salt written
\* in the same record.
C6_RecordAddressIsCreate2OfItsSalt ==
  \A i \in RecordIndices :
    lines[i][1] = to_checksum_address(Create2Hex(lines[i][2]))

\* C6, witness: two sessions have each appended a record, one of them for a
\* hit whose digest_output arrived faulty.
C6_Witness ==
  /\ Cardinality(RecordIndices) >= 2
  /\ \E s \in Sessions :
       /\ has_solution[s] # 0
       /\ hex_encode(Slice(digest_output[s], 12, 32))
            # Create2Hex(SaltHex(FullSalt(u64_to_le_fixed_8(solutions[s][1]))))

\* C7: the file is one header line, first, followed by record lines only.
C7_OneHeaderLineFirst ==
  lines # <<>> =>
    /\ lines[1] = HeaderLine
    /\ \A i \in 2..Len(lines) : lines[i] # HeaderLine

\* C8: read_current_best_score returns the maximum of the score column over
\* all records in the file, 0 when there is none.
C8_BestScoreIsMaxOverRecords ==
  LET best == read_current_best_score(pathExists, lines)
  IN  /\ \A i \in RecordIndices : parse_usize(lines[i][3]) <= best
      /\ \/ RecordIndices = {} /\ best = 0
         \/ \E i \in RecordIndices : parse_usize(lines[i][3]) = best

\* C9: when a session has terminated with an error while another is in its
\* dispatch loop, the process does not terminate.
C9_ProcessSurvivesSessionFailure ==
  [][((\E s \in Sessions : pc[s] \in {"err", "done"})
        /\ (\E t \in Sessions : InLoop(t)))
       => proc' = "running"]_vars

\* C10: run_on_all_gpus returns only after some worker has completed; its
\* return leaves the sibling workers as they are, neither cancelled nor
\* waited for; and once a worker's gpu() call has returned, it does return.
C10_ReturnsOnFirstCompletion ==
  /\ [](orch = "returned" => \E s \in Sessions : pc[s] = "done")
  /\ [][(orch = "waiting" /\ orch' = "returned")
          => (pc' = pc /\ has_solution' = has_solution /\ witem' = witem
              /\ proc' = "running")]_vars
  /\ ((\E s \in Sessions : pc[s] \in {"err", "done"}) ~> (orch = "returned"))

\* C10, witness: run_on_all_gpus has returned while a sibling worker is in
\* the middle of a dispatch.
C10_Witness ==
  /\ orch = "returned"
  /\ proc = "running"
  /\ \E s \in Sessions : pc[s] = "done"
  /\ \E t \in Sessions : pc[t] = "kernel"

\* C11: in all-GPUs mode the session spawned for the GPU enumerated at
\* platform index p and device index d opens platform p, device d, and no two
\* spawned sessions have the same device open.
C11_SessionOpensItsOwnDevice ==
  /\ \A s \in gpu_configs : InLoop(s) => Opened(s) = s
  /\ \A s, t \in gpu_configs :
       (s # t /\ InLoop(s) /\ InLoop(t)) => Opened(s) # Opened(t)

\* The step in which a write of session s to the result file fails: the open
\* (while main is still waiting, so that the step is not main's exit), the
\* header line or the record line.
SinkWriteFails(s) ==
  \/ pc[s] = "open" /\ pc'[s] \notin {"open", "header", "record"} /\ orch = "waiting"
  \/ pc[s] = "header" /\ pc'[s] = "record" /\ lines' = lines
  \/ pc[s] = "record" /\ pc'[s] = "loop" /\ lines' = lines

\* C12: a failing write to the result file drops the hit and nothing more:
\* the file is as it was, the session is back in its loop, every other
\* session is where it was and the process runs on.
C12_SinkFailureDropsTheHitOnly ==
  [][\A s \in Sessions :
       SinkWriteFails(s)
         => /\ proc' = "running"
            /\ pc'[s] = "loop"
            /\ lines' = lines
            /\ \A t \in Sessions \ {s} : pc'[t] = pc[t]]_vars

\* C13: the values a session writes into byte 54 of its message, from the
\* one pushed at construction on, never decrease, whatever the other sessions
\* append to the file in between.
C13_Byte54NeverDecreases ==
  [][\A s \in Sessions :
       (message[s] # <<>> /\ message'[s] # <<>>)
         => message'[s][55] >= message[s][55]]_vars

\* C13, witness: a session has dispatched with a byte 54 larger than the one
\* it started with (which its device buffer still holds), after the other
\* session recorded the hit of the run's first dispatch.
C13_Witness ==
  \E s \in Sessions :
    /\ pc[s] = "kernel"
    /\ message[s][55] > message_buffer[s][55]
    /\ dispatches = 2
    /\ \E t \in Sessions \ {s} : has_solution[t] # 0 /\ InLoop(t)
    /\ Cardinality(RecordIndices) = 1

\* C14: in all-GPUs mode, when every spawned session has failed during setup
\* (no dispatch was ever issued and every gpu() call has returned its error),
\* the status the process ends with is not 0.
C14_SetupFailureExitsNonZero ==
  (/\ proc # "running"
   /\ orch = "returned"
   /\ dispatches = 0
   /\ \A s \in gpu_configs : pc[s] = "done")
    => ExitStatus # 0

\* The host has no GPU: no platform, or no device whose type is GPU.
NoGpuHost ==
  \A p \in 1..Len(platforms) :
    \A d \in 1..Len(platforms[p]) : platforms[p][d] # "GPU"

\* C15: with --all-gpus on a host without a GPU, run_on_all_gpus returns its
\* error with no session spawned, the output file is not created, and the
\* status the process ends with is not 0.
C15_NoGpuIsNoDevices ==
  (NoGpuHost /\ orch \notin {"main", "single"})
    => /\ orch = "nodevices"
       /\ \A s \in Sessions : pc[s] = "none"
       /\ ~pathExists
       /\ lines = <<>>
       /\ proc # "running" => ExitStatus # 0

\* C15, witness: on the host whose only device is a CPU, the process has
\* ended after run_on_all_gpus returned its error.
C15_Witness ==
  /\ NoGpuHost
  /\ Len(platforms) > 0
  /\ orch = "nodevices"
  /\ proc = "failed"

\* The ids of the call are out of range on the host: platform_id is not below
\* the number of platforms, or gpu_device not below the number of devices of
\* that platform.
OutOfRange(s) ==
  \/ ConfigOf(s).platform_id >= Len(platforms)
  \/ ConfigOf(s).gpu_device >= Len(platforms[ConfigOf(s).platform_id + 1])

\* C16: a call of gpu() whose ids are out of range returns an error with no
\* buffer created and no kernel dispatched, and the step in which it fails
\* leaves the result file as it was, neither created nor appended to.
C16_OutOfRangeFailsBeforeBuffers ==
  /\ [](\A s \in Sessions :
          (OutOfRange(s) /\ pc[s] # "none")
            => /\ pc[s] \in {"start", "err", "done", "killed"}
               /\ message_buffer[s] = <<>>
               /\ has_solution[s] = 0
               /\ \A g \in WorkItems : witem[s][g] = "done")
  /\ [][\A s \in Sessions :
          (OutOfRange(s) /\ pc[s] = "start" /\ pc'[s] # "start")
            => /\ pc'[s] \in {"err", "killed"}
               /\ dispatches' = dispatches
               /\ pathExists' = pathExists
               /\ lines' = lines]_vars

\* C16, witness: in all-GPUs mode the session for the GPU enumerated as
\* device 1 of the second platform has failed on the first platform, which
\* has one device, while its sibling has recorded a hit.
C16_Witness ==
  \E s \in Sessions :
    /\ OutOfRange(s)
    /\ Len(platforms) > 0
    /\ pc[s] \in {"err", "done"}
    /\ lines # <<>>

\* The step in which session s issues a dispatch or fails in issuing it: the
\* count of dispatches goes up and no other session moves.
Dispatches(s) ==
  /\ pc[s] = "loop"
  /\ dispatches' = dispatches + 1
  /\ \A t \in Sessions \ {s} : pc'[t] = pc[t]

\* The step in which the reads of session s return or fail: the session
\* leaves "kernel" and the process runs on.
Harvests(s) == pc[s] = "kernel" /\ pc'[s] # "kernel" /\ proc' = "running"

\* C17: a dispatch either is issued or ends the session with the error, and
\* so do its reads: the failing step appends nothing and leaves the file as
\* it was, and a session that has ended with an error stays ended, so that
\* it issues no further dispatch and appends no record.
C17_DispatchErrorEndsSession ==
  /\ [][\A s \in Sessions :
          /\ (Dispatches(s) /\ pc'[s] # "kernel")
                => (pc'[s] = "err" /\ lines' = lines /\ pathExists' = pathExists)
          /\ (Harvests(s) /\ pc'[s] \notin {"loop", "exists"})
                => (pc'[s] = "err" /\ lines' = lines /\ pathExists' = pathExists)
          /\ pc[s] \in {"err", "done", "killed"}
                => pc'[s] \in {"err", "done", "killed"}]_vars
  /\ [](\A s \in Sessions :
          pc[s] \in {"err", "done", "killed"}
            => /\ hit[s] = NoHit
               /\ \A g \in WorkItems : witem[s][g] = "done")

\* C17, witness: a session that recorded the hit of its first dispatch has
\* ended with the error of its second, the other session not having started.
C17_Witness ==
  \E s \in gpu_configs :
    /\ pc[s] = "err"
    /\ dispatches = 2
    /\ Cardinality(RecordIndices) = 1
    /\ \A t \in gpu_configs \ {s} : pc[t] = "start"

\* C18: no step changes, removes or reorders a line that is in the file: the
\* file before a step is a prefix of the file after it, and a file that
\* exists is not removed.
C18_FileIsAppendOnly ==
  [][/\ Len(lines') >= Len(lines)
     /\ SubSeq(lines', 1, Len(lines)) = lines
     /\ pathExists => pathExists']_vars

\* C18, witness: the two sessions have appended in turn, the second one
\* writing its header line after the first one's.
C18_Witness ==
  /\ Len(lines) = 4
  /\ lines[1] = HeaderLine
  /\ lines[2] = HeaderLine

\* The 32 bytes of the salt column of a line.
SaltOf(line) == hex_decode(Slice(line[2], 2, Len(line[2])))

\* C19: the salt of every record is 32 bytes of which the first 24 are zero,
\* and the record a session appends has as its last 8 salt bytes the u64 the
\* kernel reported in solutions[0], least significant byte first.
C19_SaltIsZeroPaddedTail ==
  /\ [](\A i \in RecordIndices :
          /\ Slice(lines[i][2], 0, 2) = <<"0", "x">>
          /\ Len(SaltOf(lines[i])) = 32
          /\ \A k \in 1..24 : SaltOf(lines[i])[k] = 0)
  /\ [][\A s \in Sessions :
          Appends(s)
            => \A k \in 1..8 :
                 SaltOf(lines'[Len(lines')])[24 + k] = solutions[s][1][9 - k]]_vars

\* C19, witness: a record is in the file whose salt has no zero byte among
\* its last 8.
C19_Witness ==
  \E i \in RecordIndices : \A k \in 25..32 : SaltOf(lines[i])[k] # 0

\* The score a line contributes: the number in its third field, -1 when the
\* line has fewer than three fields or the field is not a number.
ScoreOf(line) == IF Len(line) >= 3 THEN parse_usize(line[3]) ELSE -1

\* The file with every line that contributes no score made an empty line.
Blanked(file) ==
  [i \in 1..Len(file) |-> IF ScoreOf(file[i]) = -1 THEN << <<>> >> ELSE file[i]]

KernelIdle(s) == \A g \in WorkItems : witem[s][g] = "done"

\* Session s is in the hit branch of a dispatch.
InHitBranch(s) == pc[s] \in {"exists", "open", "header", "record"}

\* C21: within a session dispatches are strictly serial.  The step that
\* writes the nonce and enqueues the kernel of the next dispatch is taken
\* only when no work item of the previous dispatch is running, its reads
\* have returned and no hit of it is left to process; the hit branch runs
\* only with the kernel idle, and a kernel runs only with no hit in hand.
C21_DispatchesAreSerial ==
  /\ [][\A s \in Sessions :
          Dispatches(s)
            => /\ KernelIdle(s)
               /\ hit[s] = NoHit
               /\ winners[s] = {}]_vars
  /\ [](\A s \in Sessions :
          /\ InHitBranch(s) <=> hit[s] # NoHit
          /\ InHitBranch(s) => KernelIdle(s)
          /\ ~KernelIdle(s) => pc[s] = "kernel")

\* C21, witness: a session whose first dispatch gave a hit, now recorded, has
\* issued its second dispatch, whose work items are running.
C21_Witness ==
  \E s \in gpu_configs :
    /\ pc[s] = "kernel"
    /\ ~KernelIdle(s)
    /\ hit[s] = NoHit
    /\ dispatches = 2
    /\ Cardinality(RecordIndices) = 1
    /\ \A t \in gpu_configs \ {s} : pc[t] = "start"

\* C22: two distinct sessions of one process, both running their loop and so
\* both printing their status once a second, print on disjoint sets of
\* terminal rows.
C22_StatusRowsAreDisjoint ==
  \A s, t \in gpu_configs :
    (s # t /\ InLoop(s) /\ InLoop(t))
      => StatusRows(ConfigOf(s)) \cap StatusRows(ConfigOf(t)) = {}

\* C23: whenever a session holds its message, so at every dispatch, the
\* message has 55 bytes, of which bytes 0..20 are D, bytes 20..52 are I, byte
\* 52 is min_leading_ones and byte 53 is min_trailing_ones; and no step
\* changes any of its bytes 0..53, so that byte 54 is the only one that
\* changes after construction.
C23_OnlyByte54Changes ==
  /\ [](\A s \in Sessions :
          message[s] # <<>>
            => /\ Len(message[s]) = 55
               /\ Slice(message[s], 0, 20) = factory
               /\ Slice(message[s], 20, 52) = init_hash
               /\ message[s][53] = min_leading_ones
               /\ message[s][54] = min_trailing_ones)
  /\ [][\A s \in Sessions :
          (message[s] # <<>> /\ message'[s] # <<>>)
            => \A i \in 1..54 : message'[s][i] = message[s][i]]_vars

\* C23, witness: a dispatch is in flight for which the session changed its
\* message after construction: the message differs from the one the device
\* buffer was built from, in byte 54 only.
C23_Witness ==
  \E s \in gpu_configs :
    /\ pc[s] = "kernel"
    /\ message[s] # message_buffer[s]
    /\ Slice(message[s], 0, 54) = Slice(message_buffer[s], 0, 54)
    /\ message[s][55] = AlwaysRecordScore

\* The 40 digits of the address column of a record, without the 0x.
AddressDigits(line) == Slice(line[1], 2, Len(line[1]))

\* A text with every letter in upper case.
AllUpper(text) == [i \in 1..Len(text) |-> to_ascii_uppercase(text[i])]

\* The spellings of one address: lowercase, uppercase and as recorded, each
\* with and without 0x.
Spellings(line) ==
  LET forms == {to_lowercase(AddressDigits(line)), AllUpper(AddressDigits(line)),
                AddressDigits(line)}
  IN  forms \cup {<<"0", "x">> \o f : f \in forms}

\* C24: to_checksum_address is idempotent and depends only on the lowercase
\* form of its argument: for the 40-digit address of every record, every
\* spelling of it (lowercase, uppercase or checksummed, with or without 0x)
\* is mapped to the same text, the one recorded, and applying
\* to_checksum_address to that text gives it back.
C24_ChecksumIsIdempotent ==
  \A i \in RecordIndices :
    /\ Len(AddressDigits(lines[i])) = 40
    /\ \A a \in Spellings(lines[i]) :
         /\ to_checksum_address(a) = lines[i][1]
         /\ to_checksum_address(to_checksum_address(a)) = to_checksum_address(a)

\* C24, witness: a record is written whose address has letters of both
\* cases, so that its spellings differ and the checksum changed some digits.
C24_Witness ==
  \E i \in RecordIndices :
    /\ AddressDigits(lines[i]) # to_lowercase(AddressDigits(lines[i]))
    /\ AddressDigits(lines[i]) # AllUpper(AddressDigits(lines[i]))
    /\ Cardinality(Spellings(lines[i])) = 6

\* The digits of an argument: what follows its optional 0x.
DigitsOf(text) ==
  IF Len(text) >= 2 /\ SubSeq(text, 1, 2) = <<"0", "x">>
  THEN SubSeq(text, 3, Len(text)) ELSE text

\* The bytes a text of hex digits stands for, a zero nibble put before an
\* odd number of digits.
BytesOf(digits) ==
  hex_decode(IF Len(digits) % 2 = 1 THEN <<"0">> \o digits ELSE digits)

\* r is what the claim says a parse to width bytes gives for text.
ParsesTo(text, width, r) ==
  IF \E i \in 1..Len(DigitsOf(text)) : HexValue(DigitsOf(text)[i]) = -1
  THEN ~r.ok
  ELSE /\ r.ok
       /\ Len(r.bytes) = width
       /\ LET b == BytesOf(DigitsOf(text))
          IN  IF Len(b) <= width
              THEN r.bytes = Zeros(width - Len(b)) \o b
              ELSE r.bytes = SubSeq(b, 1, width)

\* C25: what parse_address returned for --deployer and --caller and what
\* parse_hash returned for --init-code-hash is, for a text of hex digits
\* with or without 0x, the 20 (32) bytes the digits stand for after a zero
\* nibble is put before an odd number of them: left-padded with zero bytes
\* when they are fewer, the first 20 (32) of them when they are more; and an
\* error for a text with a character that is no hex digit.
C25_ParseAddressAndHash ==
  /\ Len(parsed) >= 1 => ParsesTo(args.deployer, 20, parsed[1])
  /\ Len(parsed) >= 2 => ParsesTo(args.caller, 20, parsed[2])
  /\ Len(parsed) >= 3 => ParsesTo(args.init_code_hash, 32, parsed[3])
  /\ orch # "args" => Len(parsed) = 3

\* C25, witness: main has parsed a --deployer of 41 digits, one digit more
\* than 20 bytes and an odd number, and the --init-code-hash ff: the first
\* byte of the address is the first digit alone and the hash is 31 zero
\* bytes and 0xff.
C25_Witness ==
  /\ orch = "main"
  /\ Len(args.deployer) = 41
  /\ args.init_code_hash = <<"f", "f">>
  /\ parsed[1].bytes[1] = HexValue(args.deployer[1])
  /\ parsed[1].bytes[20] = 16 * HexValue(args.deployer[38]) + HexValue(args.deployer[39])
  /\ parsed[3].bytes = Zeros(31) \o <<255>>

\* C26: a session appends at most one record per hit: the number of records
\* it has appended is never more than the number of its dispatches in which
\* some work item passed the predicate, and no two of its records carry the
\* same salt.
C26_OneRecordPerHit ==
  \A s \in Sessions :
    /\ Len(appended[s]) <= passing[s]
    /\ \A i, j \in 1..Len(appended[s]) :
         i # j => appended[s][i] # appended[s][j]

\* The number of characters "1" a text begins with, and ends with.
LeadingOnesOf(text) ==
  Cardinality({n \in 1..Len(text) : \A i \in 1..n : text[i] = "1"})

TrailingOnesOf(text) ==
  Cardinality({n \in 1..Len(text) :
                 \A i \in (Len(text) - n + 1)..Len(text) : text[i] = "1"})

\* C27: in every record of the file the leading_ones and trailing_ones
\* columns are the numbers of hex digits 1 the address of that record begins
\* and ends with, and the score column is their sum.
C27_RecordCountsMatchItsAddress ==
  \A i \in RecordIndices :
    /\ parse_usize(lines[i][4]) = LeadingOnesOf(AddressDigits(lines[i]))
    /\ parse_usize(lines[i][5]) = TrailingOnesOf(AddressDigits(lines[i]))
    /\ parse_usize(lines[i][3]) = parse_usize(lines[i][4]) + parse_usize(lines[i][5])

\* C27, witness: a record is written whose address begins with four and ends
\* with seven digits 1, with the score 11.
C27_Witness ==
  \E i \in RecordIndices :
    /\ LeadingOnesOf(AddressDigits(lines[i])) = 4
    /\ TrailingOnesOf(AddressDigits(lines[i])) = 7
    /\ lines[i][3] = <<"1", "1">>

\* C28: the value a session places in message byte 54 is the best score
\* that read_current_best_score returned to it from the file (the one it
\* holds as cached_best_score), whatever non-negative integer the score
\* column holds.
C28_Byte54IsTheBestScore ==
  \A s \in Sessions :
    (InLoop(s) /\ message[s] # <<>>) => message[s][55] = cached_best_score[s]

====
